---------------------------- MODULE Spec2Model ----------------------------
(***************************************************************************)
(* Model of Compilador.py: the lexer (lex), the recursive-descent parser   *)
(* (class Parser), the code generator (generate_code) and the handler of   *)
(* the "Compilar" button (CompilerGUI.compile_code).                       *)
(*                                                                         *)
(* A text is a sequence of one-character strings.  A token is the pair     *)
(* <<name, lexeme>>; Python's None is the empty tuple for a token and the  *)
(* record NoneNode / NoExc for a node / an exception.                      *)
(***************************************************************************)
EXTENDS Integers, Sequences, FiniteSets, TLC

(***************************************************************************)
(* Bounds of the exploration.                                              *)
(***************************************************************************)
MaxLen == 3        \* longest free text, in pieces
MaxRuns == 2       \* presses of the "Compilar" button in one behaviour
MaxStatements == 3 \* most statements of a program text

(***************************************************************************)
(* Character classes of Python's re module on str patterns (Unicode mode). *)
(***************************************************************************)
Digit == {"0", "1", "2", "3", "4", "5", "6", "7", "8", "9"}

Letter ==
    {"a", "b", "c", "d", "e", "f", "g", "h", "i", "j", "k", "l", "m",
     "n", "o", "p", "q", "r", "s", "t", "u", "v", "w", "x", "y", "z",
     "A", "B", "C", "D", "E", "F", "G", "H", "I", "J", "K", "L", "M",
     "N", "O", "P", "Q", "R", "S", "T", "U", "V", "W", "X", "Y", "Z", "_"}

\* a word character that is neither [a-zA-Z_] nor a digit: \w is Unicode-aware
UnicodeLetter == {"é"}

WordChar == Letter \cup Digit \cup UnicodeLetter

Space == {" ", "\t", "\n", "\r", "\f"}

None == <<>>

IsWordAt(code, i) == i >= 1 /\ i <= Len(code) /\ code[i] \in WordChar

\* \b at the position in front of character pos
Boundary(code, pos) == IsWordAt(code, pos - 1) # IsWordAt(code, pos)

\* the literal lit occurs in code at pos
Literal(code, pos, lit) ==
    /\ pos + Len(lit) - 1 <= Len(code)
    /\ \A k \in 1..Len(lit) : code[pos + k - 1] = lit[k]

\* length of the longest run of characters of class cls that starts at pos
RECURSIVE RunLen(_, _, _)
RunLen(code, pos, cls) ==
    IF pos <= Len(code) /\ code[pos] \in cls
    THEN 1 + RunLen(code, pos + 1, cls)
    ELSE 0

LitLen(code, pos, lit) == IF Literal(code, pos, lit) THEN Len(lit) ELSE 0

(***************************************************************************)
(* TOKENS: the names in the order of the alternation, and the length of    *)
(* the match of each pattern at pos (0: no match; no pattern is nullable). *)
(***************************************************************************)
TOKENS ==
    <<"IF", "ELSE", "NUMBER", "PLUS", "MINUS", "MULTIPLY", "DIVIDE",
      "LPAREN", "RPAREN", "LBRACE", "RBRACE", "SEMICOLON", "EQ", "NEQ",
      "LT", "GT", "LE", "GE", "ASSIGN", "IDENTIFIER", "WHITESPACE">>

Keyword(code, pos, lit) ==
    IF /\ Boundary(code, pos)
       /\ Literal(code, pos, lit)
       /\ Boundary(code, pos + Len(lit))
    THEN Len(lit)
    ELSE 0

MatchLen(name, code, pos) ==
    CASE name = "IF" -> Keyword(code, pos, <<"i", "f">>)
      [] name = "ELSE" -> Keyword(code, pos, <<"e", "l", "s", "e">>)
      [] name = "NUMBER" -> RunLen(code, pos, Digit)
      [] name = "PLUS" -> LitLen(code, pos, <<"+">>)
      [] name = "MINUS" -> LitLen(code, pos, <<"-">>)
      [] name = "MULTIPLY" -> LitLen(code, pos, <<"*">>)
      [] name = "DIVIDE" -> LitLen(code, pos, <<"/">>)
      [] name = "LPAREN" -> LitLen(code, pos, <<"(">>)
      [] name = "RPAREN" -> LitLen(code, pos, <<")">>)
      [] name = "LBRACE" -> LitLen(code, pos, <<"{">>)
      [] name = "RBRACE" -> LitLen(code, pos, <<"}">>)
      [] name = "SEMICOLON" -> LitLen(code, pos, <<";">>)
      [] name = "EQ" -> LitLen(code, pos, <<"=", "=">>)
      [] name = "NEQ" -> LitLen(code, pos, <<"!", "=">>)
      [] name = "LT" -> LitLen(code, pos, <<"<">>)
      [] name = "GT" -> LitLen(code, pos, <<">">>)
      [] name = "LE" -> LitLen(code, pos, <<"<", "=">>)
      [] name = "GE" -> LitLen(code, pos, <<">", "=">>)
      [] name = "ASSIGN" -> LitLen(code, pos, <<"=">>)
      [] name = "IDENTIFIER" ->
            IF pos <= Len(code) /\ code[pos] \in Letter
            THEN 1 + RunLen(code, pos + 1, WordChar)
            ELSE 0
      [] name = "WHITESPACE" -> RunLen(code, pos, Space)

\* TOKEN_REGEX at pos: the first alternative that matches wins (lastgroup)
Matching(code, pos) == {i \in 1..Len(TOKENS) : MatchLen(TOKENS[i], code, pos) > 0}

TOKEN_REGEX(code, pos) ==
    IF Matching(code, pos) = {}
    THEN None
    ELSE LET i == CHOOSE j \in Matching(code, pos) :
                      \A k \in Matching(code, pos) : j <= k
         IN  <<TOKENS[i], MatchLen(TOKENS[i], code, pos)>>

\* finditer if the scan gave up at the first character that nothing matches
RECURSIVE finditer(_, _)
finditerStopping(code, pos) ==
    IF pos > Len(code)
    THEN <<>>
    ELSE LET m == TOKEN_REGEX(code, pos)
         IN  IF m = None
             THEN <<>>
             ELSE <<<<m[1], pos, m[2]>>>> \o finditer(code, pos + m[2])

\* re.finditer from pos on: a position where nothing matches is stepped over
finditer(code, pos) ==
    IF pos > Len(code)
    THEN <<>>
    ELSE LET m == TOKEN_REGEX(code, pos)
         IN  IF m = None
             THEN finditer(code, pos + 1)
             ELSE <<<<m[1], pos, m[2]>>>> \o finditer(code, pos + m[2])

\* lex: the matches that are not WHITESPACE, as (name, value) pairs
lex(code) ==
    LET ms == finditer(code, 1)
        keep == SelectSeq(ms, LAMBDA m : m[1] # "WHITESPACE")
    IN  [k \in 1..Len(keep) |->
            <<keep[k][1], SubSeq(code, keep[k][2], keep[k][2] + keep[k][3] - 1)>>]

(***************************************************************************)
(* int() of a NUMBER lexeme and str() of a non-negative integer.           *)
(***************************************************************************)
DigitValue(d) ==
    CASE d = "0" -> 0 [] d = "1" -> 1 [] d = "2" -> 2 [] d = "3" -> 3
      [] d = "4" -> 4 [] d = "5" -> 5 [] d = "6" -> 6 [] d = "7" -> 7
      [] d = "8" -> 8 [] d = "9" -> 9

DigitChar(n) == <<"0", "1", "2", "3", "4", "5", "6", "7", "8", "9">>[n + 1]

RECURSIVE int(_)
int(digits) ==
    IF digits = <<>>
    THEN 0
    ELSE 10 * int(SubSeq(digits, 1, Len(digits) - 1))
            + DigitValue(digits[Len(digits)])

RECURSIVE str(_)
str(n) == IF n < 10 THEN <<DigitChar(n)>> ELSE str(n \div 10) \o <<DigitChar(n % 10)>>

(***************************************************************************)
(* The AST node classes.                                                   *)
(***************************************************************************)
NoneNode == [type |-> "None"]

Number(value) == [type |-> "Number", value |-> value]

Identifier(name) == [type |-> "Identifier", name |-> name]

BinOp(left, op, right) == [type |-> "BinOp", left |-> left, op |-> op, right |-> right]

Assignment(identifier, value) ==
    [type |-> "Assignment", identifier |-> identifier, value |-> value]

IfStatement(condition, then_branch, else_branch) ==
    [type |-> "IfStatement", condition |-> condition,
     then_branch |-> then_branch, else_branch |-> else_branch]

Block(statements) == [type |-> "Block", statements |-> statements]

(***************************************************************************)
(* Exceptions.  site tells which raise statement produced it; expected is  *)
(* the token kind named by the message of expect ("" elsewhere); found is  *)
(* the text quoted by the message.                                         *)
(***************************************************************************)
NoExc == [type |-> "None"]

EOF == <<"E", "O", "F">>

ExpectError(token_type, current_token) ==
    [type |-> "SyntaxError", site |-> "expect", expected |-> token_type,
     found |-> IF current_token # None THEN current_token[2] ELSE EOF]

FactorEndError ==
    [type |-> "SyntaxError", site |-> "factor", expected |-> "", found |-> <<>>]

FactorTokenError(current_token) ==
    [type |-> "SyntaxError", site |-> "factor", expected |-> "",
     found |-> current_token[2]]

\* subscripting None: 'NoneType' object is not subscriptable
SubscriptError ==
    [type |-> "TypeError", site |-> "statement", expected |-> "", found |-> <<>>]

(***************************************************************************)
(* class Parser.  A parser object is the record of its two fields; a       *)
(* method yields the exception it raised (or NoExc), the value it returned *)
(* and the parser object it left behind.                                   *)
(***************************************************************************)
Return(value, p) == [exc |-> NoExc, value |-> value, p |-> p]

Raise(exc, p) == [exc |-> exc, value |-> NoneNode, p |-> p]

Raised(r) == r.exc # NoExc

next_token(p) ==
    IF p.tokens # <<>>
    THEN [tokens |-> Tail(p.tokens), current_token |-> Head(p.tokens)]
    ELSE [tokens |-> <<>>, current_token |-> None]

\* Parser.__init__
Parser(tokens) == next_token([tokens |-> tokens, current_token |-> None])

\* expect if it let the end of the input pass for any token
expectLenient(p, token_type) ==
    IF p.current_token = None \/ p.current_token[1] = token_type
    THEN Return(NoneNode, next_token(p))
    ELSE Raise(ExpectError(token_type, p.current_token), p)

expect(p, token_type) ==
    IF p.current_token # None /\ p.current_token[1] = token_type
    THEN Return(NoneNode, next_token(p))
    ELSE Raise(ExpectError(token_type, p.current_token), p)

lookahead(p, token_type) ==
    Len(p.tokens) > 0 /\ p.tokens[1][1] = token_type

ExprOps == {"PLUS", "MINUS", "EQ", "NEQ", "LT", "GT", "LE", "GE"}

\* TermOps if term took the operators of expr as well
TermOpsFlat == {"MULTIPLY", "DIVIDE"} \cup ExprOps

TermOps == {"MULTIPLY", "DIVIDE"}

\* r unless r returned: then the rest of the method, rest, goes on from r
Then(r, rest(_)) == IF Raised(r) THEN r ELSE rest(r)

RECURSIVE statement(_), if_statement(_), block_or_statement(_),
          block_loop(_, _), assignment(_), expr(_), expr_loop(_, _),
          term(_), term_loop(_, _), factor(_)

\* factor if the closing parenthesis were left unread
factorUnclosed(p) ==
    IF p.current_token = None
    THEN Raise(FactorEndError, p)
    ELSE IF p.current_token[1] = "NUMBER"
    THEN Return(Number(int(p.current_token[2])), next_token(p))
    ELSE IF p.current_token[1] = "IDENTIFIER"
    THEN Return(Identifier(p.current_token[2]), next_token(p))
    ELSE IF p.current_token[1] = "LPAREN"
    THEN expr(next_token(p))
    ELSE Raise(FactorTokenError(p.current_token), p)

factor(p) ==
    IF p.current_token = None
    THEN Raise(FactorEndError, p)
    ELSE IF p.current_token[1] = "NUMBER"
    THEN Return(Number(int(p.current_token[2])), next_token(p))
    ELSE IF p.current_token[1] = "IDENTIFIER"
    THEN Return(Identifier(p.current_token[2]), next_token(p))
    ELSE IF p.current_token[1] = "LPAREN"
    THEN Then(expr(next_token(p)), LAMBDA result :
         Then(expect(result.p, "RPAREN"), LAMBDA e :
             Return(result.value, e.p)))
    ELSE Raise(FactorTokenError(p.current_token), p)

\* the while loop of term, entered with the result so far
term_loop(result, p) ==
    IF p.current_token # None /\ p.current_token[1] \in TermOps
    THEN Then(factor(next_token(p)), LAMBDA right :
             term_loop(BinOp(result, p.current_token[2], right.value), right.p))
    ELSE Return(result, p)

term(p) == Then(factor(p), LAMBDA result : term_loop(result.value, result.p))

\* expr_loop if the right operand were parsed by expr instead of term
expr_loopRight(result, p) ==
    IF p.current_token # None /\ p.current_token[1] \in ExprOps
    THEN Then(expr(next_token(p)), LAMBDA right :
             expr_loop(BinOp(result, p.current_token[2], right.value), right.p))
    ELSE Return(result, p)

\* the while loop of expr, entered with the result so far
expr_loop(result, p) ==
    IF p.current_token # None /\ p.current_token[1] \in ExprOps
    THEN Then(term(next_token(p)), LAMBDA right :
             expr_loop(BinOp(result, p.current_token[2], right.value), right.p))
    ELSE Return(result, p)

expr(p) == Then(term(p), LAMBDA result : expr_loop(result.value, result.p))

assignment(p) ==
    Then(expect(p, "IDENTIFIER"), LAMBDA e1 :
    Then(expect(e1.p, "ASSIGN"), LAMBDA e2 :
    Then(expr(e2.p), LAMBDA value :
    Then(expect(value.p, "SEMICOLON"), LAMBDA e3 :
        Return(Assignment(Identifier(p.current_token[2]), value.value), e3.p)))))

statement(p) ==
    IF p.current_token = None
    THEN Raise(SubscriptError, p)
    ELSE IF p.current_token[1] = "IF"
    THEN if_statement(p)
    ELSE IF p.current_token[1] = "IDENTIFIER" /\ lookahead(p, "ASSIGN")
    THEN assignment(p)
    ELSE Then(expr(p), LAMBDA e :
         Then(expect(e.p, "SEMICOLON"), LAMBDA semi :
             Return(e.value, semi.p)))

\* the while loop of block_or_statement, entered with the statements so far
block_loop(statements, p) ==
    IF p.current_token # None /\ p.current_token[1] # "RBRACE"
    THEN Then(statement(p), LAMBDA s : block_loop(Append(statements, s.value), s.p))
    ELSE Then(expect(p, "RBRACE"), LAMBDA e : Return(Block(statements), e.p))

block_or_statement(p) ==
    IF p.current_token # None /\ p.current_token[1] = "LBRACE"
    THEN Then(expect(p, "LBRACE"), LAMBDA e : block_loop(<<>>, e.p))
    ELSE statement(p)

\* the optional else clause of if_statement, after the then branch
else_clause(condition, then_branch, p) ==
    IF p.current_token # None /\ p.current_token[1] = "ELSE"
    THEN Then(block_or_statement(next_token(p)), LAMBDA else_branch :
             Return(IfStatement(condition, then_branch, else_branch.value),
                    else_branch.p))
    ELSE Return(IfStatement(condition, then_branch, NoneNode), p)

if_statement(p) ==
    Then(expect(p, "IF"), LAMBDA e1 :
    Then(expect(e1.p, "LPAREN"), LAMBDA e2 :
    Then(expr(e2.p), LAMBDA condition :
    Then(expect(condition.p, "RPAREN"), LAMBDA e3 :
    Then(block_or_statement(e3.p), LAMBDA then_branch :
        else_clause(condition.value, then_branch.value, then_branch.p))))))

\* the while loop of parse, entered with the statements so far
RECURSIVE parse_loop(_, _)
parse_loop(statements, p) ==
    IF p.current_token # None
    THEN Then(statement(p), LAMBDA s : parse_loop(Append(statements, s.value), s.p))
    ELSE Return(Block(statements), p)

parse(p) == parse_loop(<<>>, p)

(***************************************************************************)
(* generate_code yields the exception it raised (or NoExc) and the text.   *)
(***************************************************************************)
Text(t) == [exc |-> NoExc, value |-> t]

ValueError == [type |-> "ValueError", site |-> "generate_code", expected |-> "", found |-> <<>>]

\* '\n'.join(texts)
RECURSIVE join(_)
join(texts) ==
    IF texts = <<>> THEN <<>>
    ELSE IF Len(texts) = 1 THEN texts[1]
    ELSE texts[1] \o <<"\n">> \o join(Tail(texts))

IfHead == <<"i", "f", " ", "(">>

ThenOpen == <<")", " ", "{", "\n", " ", " ">>

ThenClose == <<"\n", "}">>

ElseOpen == <<" ", "e", "l", "s", "e", " ", "{", "\n", " ", " ">>

ElseClose == <<"\n", "}">>

RECURSIVE generate_code(_)
generate_code(node) ==
    IF node.type = "Number"
    THEN Text(str(node.value))
    ELSE IF node.type = "Identifier"
    THEN Text(node.name)
    ELSE IF node.type = "BinOp"
    THEN LET left == generate_code(node.left)
         IN  IF Raised(left) THEN left ELSE
             LET right == generate_code(node.right)
             IN  IF Raised(right) THEN right ELSE
                 Text(<<"(">> \o left.value \o <<" ">> \o node.op \o <<" ">>
                        \o right.value \o <<")">>)
    ELSE IF node.type = "Assignment"
    THEN LET value == generate_code(node.value)
         IN  IF Raised(value) THEN value ELSE
             Text(node.identifier.name \o <<" ", "=", " ">> \o value.value \o <<";">>)
    ELSE IF node.type = "IfStatement"
    THEN LET condition == generate_code(node.condition)
         IN  IF Raised(condition) THEN condition ELSE
             LET then_branch == generate_code(node.then_branch)
             IN  IF Raised(then_branch) THEN then_branch ELSE
                 LET else_branch == IF node.else_branch # NoneNode
                                    THEN generate_code(node.else_branch)
                                    ELSE Text(<<>>)
                 IN  IF Raised(else_branch) THEN else_branch ELSE
                     Text(IfHead \o condition.value \o ThenOpen
                            \o then_branch.value \o ThenClose
                            \o (IF else_branch.value # <<>>
                                THEN ElseOpen \o else_branch.value \o ElseClose
                                ELSE <<>>))
    ELSE IF node.type = "Block"
    THEN LET parts == [k \in 1..Len(node.statements) |->
                          generate_code(node.statements[k])]
         IN  IF \E k \in 1..Len(parts) : Raised(parts[k])
             THEN parts[CHOOSE k \in 1..Len(parts) :
                            /\ Raised(parts[k])
                            /\ \A j \in 1..(k - 1) : ~Raised(parts[j])]
             ELSE Text(join([k \in 1..Len(parts) |-> parts[k].value]))
    ELSE [exc |-> ValueError, value |-> <<>>]

\* the try body of compile_code up to generated_code, on the text read
Pipeline(code) ==
    LET tokens == lex(code)
        ast == parse(Parser(tokens))
    IN  IF Raised(ast)
        THEN [exc |-> ast.exc, value |-> <<>>]
        ELSE generate_code(ast.value)

(***************************************************************************)
(* The texts typed into the entry widget.                                  *)
(***************************************************************************)
\* the words joined by single blanks
RECURSIVE Words(_)
Words(ws) ==
    IF ws = <<>> THEN <<>>
    ELSE IF Len(ws) = 1 THEN ws[1]
    ELSE ws[1] \o <<" ">> \o Words(Tail(ws))

\* the pieces written one after the other
RECURSIVE Concat(_)
Concat(ps) == IF ps = <<>> THEN <<>> ELSE ps[1] \o Concat(Tail(ps))

Prefixes(ws) == {SubSeq(ws, 1, n) : n \in 0..Len(ws)}

kwIf == <<"i", "f">>

kwElse == <<"e", "l", "s", "e">>

\* the operator lexemes of the language
AddOps == {<<"+">>, <<"-">>, <<"=", "=">>, <<"!", "=">>, <<"<">>, <<">">>}

MulOps == {<<"*">>, <<"/">>}

AllOps == AddOps \cup MulOps \cup {<<"<", "=">>, <<">", "=">>}

Literals == {<<"1">>, <<"2">>, <<"4", "0">>}

\* operands in the form generate_code writes them
OperandTriples ==
    {<<<<"1">>, <<"2">>, <<"3">>>>, <<<<"x">>, <<"y">>, <<"z", "1">>>>}

\* "a op b;"
BinText(a, op, b) == Words(<<a, op, b>>) \o <<";">>

\* "a o1 b o2 c;"
ChainText(t, o1, o2) == Words(<<t[1], o1, t[2], o2, t[3]>>) \o <<";">>

BinTexts == {BinText(a, op, b) : a \in Literals, op \in AllOps, b \in Literals}

ChainTexts ==
    {ChainText(t, o[1], o[2]) :
        t \in OperandTriples, o \in (AddOps \cup MulOps) \X (AddOps \cup MulOps)}

\* if statements, as words, and every text that stops short of their end
Conds == {<<<<"x">>>>, <<<<"x">>, <<"<">>, <<"5">>>>}

Thens ==
    {<<<<"y">>, <<"=">>, <<"1">>, <<";">>>>,
     <<<<"{">>, <<"y">>, <<"=">>, <<"1">>, <<";">>, <<"}">>>>,
     <<<<"{">>, <<"}">>>>,
     <<<<"x">>, <<";">>>>}

Elses ==
    {<<>>,
     <<kwElse, <<"y">>, <<"=">>, <<"2">>, <<";">>>>,
     <<kwElse, <<"{">>, <<"y">>, <<"=">>, <<"2">>, <<";">>, <<"}">>>>,
     <<kwElse, <<"{">>, <<"}">>>>,
     <<kwElse, <<"7">>, <<";">>>>}

IfWords(c, t, e) == <<kwIf, <<"(">>>> \o c \o <<<<")">>>> \o t \o e

IfTexts ==
    UNION {{Words(w) : w \in Prefixes(IfWords(c, t, e))} :
              c \in Conds, t \in Thens, e \in Elses}

\* programs: up to MaxStatements statements, the last one maybe unfinished
Statements ==
    {<<"a", " ", "=", " ", "1", ";">>,
     <<"b", " ", "+", " ", "2", ";">>,
     <<"i", "f", " ", "(", "c", ")", " ", "d", ";">>,
     <<"e", " ", "=">>}

ProgramTexts == UNION {{Words(ws) : ws \in [1..n -> Statements]} : n \in 0..MaxStatements}

\* expressions with an identifier that is spelt like a keyword: after an
\* unmatched word character there is no \b, so the word is an IDENTIFIER
KeywordNameTexts ==
    {<<"é", "i", "f", " ", "+", " ", "2", ";">>,
     <<"1", " ", "*", " ", "é", "e", "l", "s", "e", ";">>}

\* free texts: up to MaxLen pieces with nothing in between
Pieces == {kwIf, <<"1">>, <<"x">>, <<"=">>, <<";">>, <<" ">>, <<"@">>, <<"é">>}

FreeTexts == UNION {{Concat(ps) : ps \in [1..n -> Pieces]} : n \in 0..MaxLen}

\* the scenarios of the documentation
Scenarios ==
    {Words(<<<<"x">>, <<"=">>, <<"5", ";">>>>),
     Words(<<<<"1">>, <<"+">>, <<"2">>, <<"*">>, <<"3", ";">>>>),
     Words(<<<<"1">>, <<"+", ";">>>>),
     Words(<<kwIf, <<"(", "x", ")">>, <<"y">>, <<"=">>, <<"1">>>>),
     Words(<<<<"1">>, <<"@">>, <<"+">>, <<"2", ";">>>>),
     Words(<<kwIf, <<"(", "x">>, <<"<">>, <<"5", ")">>, <<"{">>, <<"y">>, <<"=">>,
             <<"1", ";">>, <<"}">>, kwElse, <<"{">>, <<"y">>, <<"=">>,
             <<"2", ";">>, <<"}">>>>)}

Texts ==
    BinTexts \cup ChainTexts \cup IfTexts \cup ProgramTexts \cup KeywordNameTexts
        \cup FreeTexts \cup Scenarios

(***************************************************************************)
(* CompilerGUI: the widgets, and compile_code one statement at a time.     *)
(***************************************************************************)
VARIABLES
    entry,           \* the text of the entry widget
    output,          \* the text of the output widget
    shown,           \* the exception of the last message box (NoExc: none)
    runs,            \* finished runs of compile_code
    pc,              \* the statement of compile_code to run next
    code,            \* locals of compile_code and fields of its Parser
    tokens,
    current_token,
    statements,      \* the local of Parser.parse
    ast,
    generated_code,
    exc              \* the exception on its way to the except clause

vars == <<entry, output, shown, runs, pc, code, tokens, current_token,
          statements, ast, generated_code, exc>>

locals == <<code, tokens, current_token, statements, ast, generated_code, exc>>

NoLocals ==
    /\ code = <<>>
    /\ tokens = <<>>
    /\ current_token = None
    /\ statements = <<>>
    /\ ast = NoneNode
    /\ generated_code = <<>>
    /\ exc = NoExc

Init ==
    /\ entry = <<>>
    /\ output = <<>>
    /\ shown = NoExc
    /\ runs = 0
    /\ pc = "idle"
    /\ NoLocals

\* the user edits the entry and presses "Compilar": every text the first
\* time, one of the documented scenarios afterwards
TypeText ==
    /\ pc = "idle"
    /\ runs < MaxRuns
    /\ \E t \in (IF runs = 0 THEN Texts ELSE Scenarios) : entry' = t
    /\ pc' = "get"
    /\ UNCHANGED <<output, shown, runs, locals>>

\* GetEntry if the output were cleared before the try body
GetEntryClearing ==
    /\ pc = "get"
    /\ code' = entry \o <<"\n">>
    /\ output' = <<>>
    /\ shown' = NoExc
    /\ pc' = "lex"
    /\ UNCHANGED <<entry, runs, tokens, current_token, statements,
                   ast, generated_code, exc>>

\* code = self.entry.get("1.0", tk.END): the text and its final newline
GetEntry ==
    /\ pc = "get"
    /\ code' = entry \o <<"\n">>
    /\ shown' = NoExc
    /\ pc' = "lex"
    /\ UNCHANGED <<entry, output, runs, tokens, current_token, statements,
                   ast, generated_code, exc>>

\* tokens = lex(code)
Lex ==
    /\ pc = "lex"
    /\ tokens' = lex(code)
    /\ pc' = "parser"
    /\ UNCHANGED <<entry, output, shown, runs, code, current_token, statements,
                   ast, generated_code, exc>>

\* parser = Parser(tokens), and the first line of parse
NewParser ==
    /\ pc = "parser"
    /\ tokens' = Parser(tokens).tokens
    /\ current_token' = Parser(tokens).current_token
    /\ statements' = <<>>
    /\ pc' = "parse"
    /\ UNCHANGED <<entry, output, shown, runs, code, ast, generated_code, exc>>

\* one turn of the while loop of parse: statements.append(self.statement())
ParseStatement ==
    /\ pc = "parse"
    /\ current_token # None
    /\ LET s == statement([tokens |-> tokens, current_token |-> current_token])
       IN  /\ tokens' = s.p.tokens
           /\ current_token' = s.p.current_token
           /\ IF Raised(s)
              THEN /\ exc' = s.exc
                   /\ pc' = "except"
                   /\ UNCHANGED statements
              ELSE /\ statements' = Append(statements, s.value)
                   /\ UNCHANGED <<exc, pc>>
    /\ UNCHANGED <<entry, output, shown, runs, code, ast, generated_code>>

\* ParseReturn if the loop of parse tested self.tokens
ParseReturnEarly ==
    /\ pc = "parse"
    /\ tokens = <<>>
    /\ ast' = Block(statements)
    /\ pc' = "generate"
    /\ UNCHANGED <<entry, output, shown, runs, code, tokens, current_token,
                   statements, generated_code, exc>>

\* the loop of parse ends: ast = Block(statements)
ParseReturn ==
    /\ pc = "parse"
    /\ current_token = None
    /\ ast' = Block(statements)
    /\ pc' = "generate"
    /\ UNCHANGED <<entry, output, shown, runs, code, tokens, current_token,
                   statements, generated_code, exc>>

\* generated_code = generate_code(ast)
Generate ==
    /\ pc = "generate"
    /\ LET g == generate_code(ast)
       IN  IF Raised(g)
           THEN /\ exc' = g.exc
                /\ pc' = "except"
                /\ UNCHANGED generated_code
           ELSE /\ generated_code' = g.value
                /\ pc' = "delete"
                /\ UNCHANGED exc
    /\ UNCHANGED <<entry, output, shown, runs, code, tokens, current_token,
                   statements, ast>>

\* self.output.delete("1.0", tk.END)
OutputDelete ==
    /\ pc = "delete"
    /\ output' = <<>>
    /\ pc' = "insert"
    /\ UNCHANGED <<entry, shown, runs, locals>>

\* the locals of compile_code are gone when it returns
Forget ==
    /\ code' = <<>>
    /\ tokens' = <<>>
    /\ current_token' = None
    /\ statements' = <<>>
    /\ ast' = NoneNode
    /\ generated_code' = <<>>
    /\ exc' = NoExc

\* self.output.insert(tk.END, generated_code), and compile_code returns
OutputInsert ==
    /\ pc = "insert"
    /\ output' = output \o generated_code
    /\ pc' = "idle"
    /\ runs' = runs + 1
    /\ Forget
    /\ UNCHANGED <<entry, shown>>

\* except Exception as e: messagebox.showerror("Erro", str(e))
ShowError ==
    /\ pc = "except"
    /\ shown' = exc
    /\ pc' = "idle"
    /\ runs' = runs + 1
    /\ Forget
    /\ UNCHANGED <<entry, output>>

\* the statements of compile_code
Run ==
    \/ GetEntry
    \/ Lex
    \/ NewParser
    \/ ParseStatement
    \/ ParseReturn
    \/ Generate
    \/ OutputDelete
    \/ OutputInsert
    \/ ShowError

Next == TypeText \/ Run

Spec == Init /\ [][Next]_vars

\* compile_code has returned from compiling the text t
Compiled(t) == pc = "idle" /\ runs > 0 /\ entry = t

(***************************************************************************)
(* Notions the properties are stated with.                                 *)
(***************************************************************************)
\* the text "(l op r)"
Paren(l, op, r) == <<"(">> \o l \o <<" ">> \o op \o <<" ">> \o r \o <<")">>

\* the node an operand text stands for
Leaf(a) == IF a[1] \in Digit THEN Number(int(a)) ELSE Identifier(a)

\* the run of compile_code on t ended without an error, the output being o
Yields(t, o) == Compiled(t) => (shown = NoExc /\ output = o)

\* the text part occurs in the text whole
Contains(whole, part) ==
    \E i \in 1..(Len(whole) - Len(part) + 1) :
        SubSeq(whole, i, i + Len(part) - 1) = part

\* C1: for integer literals a, b and each of the ten binary operators op,
\* compiling "a op b;" succeeds and the output is exactly "(a op b)"
C1_BinaryExpression ==
    \A a \in Literals, b \in Literals, op \in AllOps :
        Yields(BinText(a, op, b), Paren(a, op, b))

\* C3: multiplicative operators bind tighter than additive and comparison
\* operators: "a e b m c;" compiles to "(a e (b m c))" and "a m b e c;" to
\* "((a m b) e c)", for m in {*, /} and e in {+, -, ==, !=, <, >}
C3_Precedence ==
    \A t \in OperandTriples, e \in AddOps, m \in MulOps :
        /\ Yields(ChainText(t, e, m), Paren(t[1], e, Paren(t[2], m, t[3])))
        /\ Yields(ChainText(t, m, e), Paren(Paren(t[1], m, t[2]), e, t[3]))

C3_Witness ==
    /\ Compiled(<<"1", " ", "+", " ", "2", " ", "*", " ", "3", ";">>)
    /\ output = <<"(", "1", " ", "+", " ", "(", "2", " ", "*", " ", "3", ")", ")">>

\* the statements parse returns for "a o1 b o2 c;" when it groups to the left
LeftTree(t, o1, o2) ==
    Block(<<BinOp(BinOp(Leaf(t[1]), o1, Leaf(t[2])), o2, Leaf(t[3]))>>)

SameLevel == (AddOps \X AddOps) \cup (MulOps \X MulOps)

\* C8: operators of one level group to the left: for o1, o2 both in
\* {+, -, ==, !=, <, >} or both in {*, /}, "a o1 b o2 c;" parses to
\* BinOp(BinOp(a, o1, b), o2, c) and is rendered "((a o1 b) o2 c)"
C8_LeftAssociative ==
    \A t \in OperandTriples, o \in SameLevel :
        /\ (pc = "generate" /\ entry = ChainText(t, o[1], o[2]))
              => ast = LeftTree(t, o[1], o[2])
        /\ Yields(ChainText(t, o[1], o[2]),
                  Paren(Paren(t[1], o[1], t[2]), o[2], t[3]))

C8_Witness ==
    /\ Compiled(<<"x", " ", "<", " ", "y", " ", "=", "=", " ", "z", "1", ";">>)
    /\ output = <<"(", "(", "x", " ", "<", " ", "y", ")", " ", "=", "=", " ",
                  "z", "1", ")">>

\* the BinOp nodes of a tree, the root included
RECURSIVE BinOps(_)
BinOps(node) ==
    IF node.type = "BinOp"
    THEN {node} \cup BinOps(node.left) \cup BinOps(node.right)
    ELSE IF node.type = "Assignment"
    THEN BinOps(node.value)
    ELSE IF node.type = "IfStatement"
    THEN BinOps(node.condition) \cup BinOps(node.then_branch)
            \cup BinOps(node.else_branch)
    ELSE IF node.type = "Block"
    THEN UNION {BinOps(node.statements[k]) : k \in 1..Len(node.statements)}
    ELSE {}

\* C2 as stated: parenthesization is idempotent: for every BinOp tree t
\* that parsing produced, the text s = generate_code(t) goes through lex,
\* parse and generate_code again without an error and comes out as s
C2_Idempotent ==
    pc = "generate" =>
        \A t \in BinOps(ast) :
            Pipeline(generate_code(t).value) = generate_code(t)

\* the names of the identifiers of a tree of BinOp, Number and Identifier
RECURSIVE Names(_)
Names(node) ==
    IF node.type = "Identifier" THEN {node.name}
    ELSE IF node.type = "BinOp" THEN Names(node.left) \cup Names(node.right)
    ELSE {}

\* C2 amended: for every BinOp tree t that parsing produced and that has no
\* identifier spelt if or else, the text s = generate_code(t) followed by
\* the ';' of a statement goes through lex, parse and generate_code without
\* an error and comes out as s
C2_IdempotentStatement ==
    pc = "generate" =>
        \A t \in BinOps(ast) :
            (Names(t) \cap {kwIf, kwElse} = {})
                => Pipeline(generate_code(t).value \o <<";">>) = generate_code(t)

\* a tree with a nested BinOp has been parsed and recompiles to its own text
C2_Witness ==
    /\ pc = "generate"
    /\ ast = Block(<<BinOp(BinOp(Number(1), <<"*">>, Number(2)), <<"+">>, Number(3))>>)
    /\ Pipeline(generate_code(ast.statements[1]).value \o <<";">>)
           = Text(<<"(", "(", "1", " ", "*", " ", "2", ")", " ", "+", " ", "3", ")">>)

\* C4: a parse that does not return a Block fails with a SyntaxError, also
\* when the tokens end before a statement is complete
C4_OnlySyntaxErrors ==
    pc = "except" => exc.type = "SyntaxError"

\* the IfStatement nodes among the statements of a Block
IfStatements(block) ==
    {block.statements[k] : k \in
        {j \in 1..Len(block.statements) : block.statements[j].type = "IfStatement"}}

\* C5: the text generated for an IfStatement has the " else {" section, with
\* the rendered else branch in it, exactly when an else clause was parsed
C5_ElseSection ==
    pc = "generate" =>
        \A n \in IfStatements(ast) :
            IF n.else_branch # NoneNode
            THEN Contains(generate_code(n).value,
                          ElseOpen \o generate_code(n.else_branch).value \o ElseClose)
            ELSE ~Contains(generate_code(n).value, <<" ", "e", "l", "s", "e", " ", "{">>)

\* C6: a failure of lex, parse or generate_code ends the run with the output
\* untouched; the output changes only in the two statements that follow a
\* successful generate_code, and a raised exception goes to the handler
C6_FailFast ==
    [][/\ (output' # output) =>
              /\ pc \in {"delete", "insert"}
              /\ exc = NoExc
              /\ Pipeline(code) = Text(generated_code)
       /\ (code # <<>> /\ Raised(Pipeline(code))) =>
              /\ output' = output
              /\ pc' \in {"lex", "parser", "parse", "except", "idle"}
       /\ (exc' # NoExc) => pc' = "except"
       /\ (pc = "except") => (pc' = "idle" /\ shown' = exc /\ output' = output)
      ]_vars

\* a run fails while the output holds the text of an earlier run
C6_Witness ==
    /\ pc = "except"
    /\ output # <<>>
    /\ exc.type = "SyntaxError"

\* the parser objects that stand at some token of toks, or at its end
ParserStates(toks) == {Parser(SubSeq(toks, k, Len(toks))) : k \in 1..(Len(toks) + 1)}

\* the tokens a parser object has not consumed
Unread(p) == Len(p.tokens) + (IF p.current_token # None THEN 1 ELSE 0)

\* statement() at p takes the assignment branch
IsAssignment(p) ==
    /\ p.current_token # None
    /\ p.current_token[1] = "IDENTIFIER"
    /\ lookahead(p, "ASSIGN")

\* statement() at p takes the expression branch
IsExpression(p) ==
    /\ p.current_token # None
    /\ p.current_token[1] # "IF"
    /\ ~IsAssignment(p)

\* the expression of the assignment or expression statement at p
StatementExpr(p) == IF IsAssignment(p) THEN expr(next_token(next_token(p))) ELSE expr(p)

\* the expression of the statement at p is complete and no SEMICOLON follows
LacksSemicolon(p) ==
    /\ IsAssignment(p) \/ IsExpression(p)
    /\ ~Raised(StatementExpr(p))
    /\ \/ StatementExpr(p).p.current_token = None
       \/ StatementExpr(p).p.current_token[1] # "SEMICOLON"

\* the text the error message quotes for the token in front of p
Quoted(p) == IF p.current_token = None THEN EOF ELSE p.current_token[2]

IfWithoutSemicolon == <<"i", "f", " ", "(", "x", ")", " ", "y", " ", "=", " ", "1">>

\* C7: an assignment or expression statement whose expression is not
\* followed by a SEMICOLON token fails with a SyntaxError that names
\* SEMICOLON as expected and quotes the token found, or EOF at the end of
\* the input; "if (x) y = 1" fails so
C7_MissingSemicolon ==
    /\ pc = "parser" =>
          \A p \in ParserStates(tokens) :
              LacksSemicolon(p) =>
                  /\ statement(p).exc.type = "SyntaxError"
                  /\ statement(p).exc.expected = "SEMICOLON"
                  /\ statement(p).exc.found = Quoted(StatementExpr(p).p)
    /\ Compiled(IfWithoutSemicolon) =>
          /\ shown.type = "SyntaxError"
          /\ shown.expected = "SEMICOLON"
          /\ shown.found = EOF

C7_Witness ==
    /\ Compiled(IfWithoutSemicolon)
    /\ shown.type = "SyntaxError"
    /\ shown.expected = "SEMICOLON"

\* the operands and operators of a tree, from left to right
RECURSIVE Frontier(_)
Frontier(node) ==
    IF node.type = "Number" THEN <<str(node.value)>>
    ELSE IF node.type = "Identifier" THEN <<node.name>>
    ELSE IF node.type = "BinOp"
    THEN Frontier(node.left) \o <<node.op>> \o Frontier(node.right)
    ELSE IF node.type = "Assignment"
    THEN <<node.identifier.name>> \o Frontier(node.value)
    ELSE IF node.type = "IfStatement"
    THEN Frontier(node.condition) \o Frontier(node.then_branch)
            \o Frontier(node.else_branch)
    ELSE IF node.type = "Block"
    THEN Concat([k \in 1..Len(node.statements) |-> Frontier(node.statements[k])])
    ELSE <<>>

\* the operands and operators of a token sequence, in its order
SourceFrontier(toks) ==
    LET keep == SelectSeq(toks, LAMBDA t :
                    t[1] \in {"NUMBER", "IDENTIFIER"} \cup ExprOps \cup TermOps)
    IN  [k \in 1..Len(keep) |->
            IF keep[k][1] = "NUMBER" THEN str(int(keep[k][2])) ELSE keep[k][2]]

\* C9: parse terminates: a statement() that returns has consumed a token, so
\* each turn of the loop of parse, which either raises or goes on, leaves
\* fewer tokens to read; when parse returns its Block no token is left
\* unread and the statements are in the order of the source
C9_ParseTerminates ==
    /\ [](pc = "parser" =>
             \A p \in ParserStates(tokens) :
                 (p.current_token # None /\ ~Raised(statement(p)))
                     => Unread(statement(p).p) < Unread(p))
    /\ [][pc = "parse" =>
              \/ pc' = "except"
              \/ pc' = "generate" /\ current_token = None
              \/ /\ pc' = "parse"
                 /\ Len(statements') = Len(statements) + 1
                 /\ Unread([tokens |-> tokens', current_token |-> current_token'])
                      < Unread([tokens |-> tokens, current_token |-> current_token])
          ]_vars
    /\ [](pc = "generate" =>
             /\ tokens = <<>>
             /\ current_token = None
             /\ Frontier(ast) = SourceFrontier(lex(code)))

\* parse returned a Block of two statements
C9_Witness ==
    /\ pc = "generate"
    /\ Len(ast.statements) = 2
    /\ tokens = <<>>

\* the positions of text that no match of finditer covers
Unmatched(text) ==
    LET ms == finditer(text, 1)
    IN  (1..Len(text)) \
            UNION {ms[k][2]..(ms[k][2] + ms[k][3] - 1) : k \in 1..Len(ms)}

\* text with a blank at each of the positions
Blanked(text, positions) ==
    [i \in 1..Len(text) |-> IF i \in positions THEN " " ELSE text[i]]

AtSignText == <<"1", " ", "@", " ", "+", " ", "2", ";">>

\* C10 as stated: lex raises nothing, and a character that no pattern
\* matches yields no token, the tokens around it being those of the text
\* with a separator in its place; "1 @ + 2;" compiles to "(1 + 2)"
C10_SkipsUnmatched ==
    /\ pc = "parser" =>
          /\ exc = NoExc
          /\ tokens = lex(Blanked(code, Unmatched(code)))
    /\ Yields(AtSignText, <<"(", "1", " ", "+", " ", "2", ")">>)

\* C10 amended: the same for the unmatched characters that are not word
\* characters (\w), such as '@' and '#'
C10_SkipsUnmatchedNonWord ==
    /\ pc = "parser" =>
          /\ exc = NoExc
          /\ tokens = lex(Blanked(code, {i \in Unmatched(code) : code[i] \notin WordChar}))
    /\ Yields(AtSignText, <<"(", "1", " ", "+", " ", "2", ")">>)

\* a text with an unmatched '@' between two tokens has been lexed
C10_Witness ==
    /\ pc = "parser"
    /\ code = <<"x", "@", "=", "\n">>
    /\ tokens = <<<<"IDENTIFIER", <<"x">>>>, <<"ASSIGN", <<"=">>>>>>

=============================================================================
